---- MODULE Spec2Model ----
(***************************************************************************)
(* The four tutorial programs of gl-tutorial, each a single main routine:  *)
(*   context   src/context-creation.go lines   1..70   (window bootstrap)  *)
(*   cube      src/context-creation.go lines  72..452  (reflective cube)   *)
(*   triangle  src/context-creation.go lines 454..635  (flat triangles)    *)
(*   quad      src/unnamed/part_000                    (textured quad)     *)
(* A main routine is modelled as the sequence of its statements (Code),    *)
(* a program counter into it, Go's defer stack, and the GL / GLFW state    *)
(* the statements read and write.                                          *)
(***************************************************************************)
EXTENDS Integers, Sequences, FiniteSets, TLC

\* ------------------------------------------------------------- bounds
\* events one PollEvents call delivers at most
MaxEvents == 2
\* largest clock reading, in ticks
MaxNow == 2
\* completed frames are counted up to here (the counter saturates)
MaxFrames == 2
\* pixels of the framebuffer
NumPixels == 1
\* the widest and the tallest image a texture file holds, in pixels
MaxWidth == 2
MaxHeight == 2

\* ------------------------------------------------------------- constants
\* float32 keeps 24 significant bits
MantissaBits == 24
\* the 8-bit masks 0xFF and 0x00 of the stencil calls
FullMask == 255
NoMask == 0
\* bytes of one NRGBA pixel: imgWidth*imgHeight*4, imgWidth * 4
BytesPerPixel == 4
\* gl.Texture(0), the handle createTexture returns with an error
ZeroTexture == 0
\* int(glh.Sizeof(gl.FLOAT)), the bytes of a GLfloat
SizeofFloat == 4

Programs == {"context", "cube", "triangle", "quad"}
Pixels == 1..NumPixels

\* glfw.Press / Release / Repeat and the keys the handler distinguishes
KeyActions == {"Press", "Release", "Repeat"}
Keys == {"Escape", "A"}

\* gl.NO_ERROR, a code glu.ErrorString knows, and one it does not
NoError == "NO_ERROR"
ErrCodes == {"INVALID_OPERATION", "UNKNOWN_CODE"}

\* ------------------------------------------------------------- the programs
\* A statement is <<operation, argument>>.
ContextSetup ==
  << <<"glfwInit", "">>, <<"defer", "glfw">>, <<"windowHints", "">>,
     <<"getPrimaryMonitor", "">>, <<"createWindow", "">>,
     <<"makeContextCurrent", "">>, <<"setKeyCallback", "">>,
     <<"glInit", "">>, <<"genBuffers", "buffers">> >>

ContextBody ==
  << <<"swapBuffers", "">>, <<"pollEvents", "">> >>

CubeSetup ==
  << <<"glfwInit", "">>, <<"defer", "glfw">>, <<"windowHints", "">>,
     <<"createWindow", "">>, <<"defer", "window">>,
     <<"makeContextCurrent", "">>, <<"setKeyCallback", "">>,
     <<"glInit", "">>, <<"enable", "DEPTH_TEST">>,
     <<"genVertexArray", "vao">>, <<"defer", "vao">>, <<"bindVertexArray", "">>,
     <<"checkError", "vertex array object">>,
     <<"genBuffer", "vbo">>, <<"defer", "vbo">>, <<"bufferData", "vbo">>,
     <<"checkError", "vertex data">>,
     <<"open", "sample.png">>, <<"createTexture", "tex0">>, <<"defer", "tex0">>,
     <<"open", "sample2.png">>, <<"createTexture", "tex1">>, <<"defer", "tex1">>,
     <<"compileShader", "vertexShader">>, <<"checkError", "vertex shader">>,
     <<"compileShader", "fragmentShader">>, <<"checkError", "fragment shader">>,
     <<"linkProgram", "program">>, <<"checkError", "program">>,
     <<"attribPointer", "position">>, <<"checkError", "position attrib pointer">>,
     <<"attribPointer", "color">>, <<"checkError", "color attrib pointer">>,
     <<"attribPointer", "texcoord">>, <<"checkError", "texcoord attrib pointer">>,
     <<"overrideColor", "white">>, <<"checkError", "overrideColor uniform pointer">>,
     <<"textureUniforms", "">>,
     <<"uniformMatrix", "view">>, <<"uniformMatrix", "proj">>,
     <<"startTime", "">> >>

\* the cube's frame without its clear of the stencil buffer
CubeBodyNoStencilClear ==
  << <<"pollEvents", "">>,
     <<"clear", {"COLOR", "DEPTH"}>>,
     <<"rotate", "">>,
     <<"drawArrays", <<0, 36>>>>,
     <<"enable", "STENCIL_TEST">>,
     <<"stencilFunc", <<"ALWAYS", 1, FullMask>>>>,
     <<"stencilOp", <<"KEEP", "KEEP", "REPLACE">>>>,
     <<"stencilMask", FullMask>>,
     <<"depthMask", FALSE>>,
     <<"drawArrays", <<36, 6>>>>,
     <<"stencilFunc", <<"EQUAL", 1, FullMask>>>>,
     <<"stencilMask", NoMask>>,
     <<"depthMask", TRUE>>,
     <<"reflectModel", "">>,
     <<"overrideColor", "dark">>,
     <<"drawArrays", <<0, 36>>>>,
     <<"overrideColor", "white">>,
     <<"disable", "STENCIL_TEST">>,
     <<"checkError", "main loop">>,
     <<"swapBuffers", "">> >>

CubeBody ==
  << <<"pollEvents", "">>,
     <<"clear", {"COLOR", "DEPTH"}>>,
     <<"rotate", "">>,
     <<"drawArrays", <<0, 36>>>>,
     <<"enable", "STENCIL_TEST">>,
     <<"stencilFunc", <<"ALWAYS", 1, FullMask>>>>,
     <<"stencilOp", <<"KEEP", "KEEP", "REPLACE">>>>,
     <<"stencilMask", FullMask>>,
     <<"depthMask", FALSE>>,
     <<"clear", {"STENCIL"}>>,
     <<"drawArrays", <<36, 6>>>>,
     <<"stencilFunc", <<"EQUAL", 1, FullMask>>>>,
     <<"stencilMask", NoMask>>,
     <<"depthMask", TRUE>>,
     <<"reflectModel", "">>,
     <<"overrideColor", "dark">>,
     <<"drawArrays", <<0, 36>>>>,
     <<"overrideColor", "white">>,
     <<"disable", "STENCIL_TEST">>,
     <<"checkError", "main loop">>,
     <<"swapBuffers", "">> >>

TriangleSetup ==
  << <<"glfwInit", "">>, <<"defer", "glfw">>, <<"windowHints", "">>,
     <<"createWindow", "">>, <<"defer", "window">>,
     <<"makeContextCurrent", "">>, <<"setKeyCallback", "">>,
     <<"glInit", "">>,
     <<"genVertexArray", "vao">>, <<"bindVertexArray", "">>,
     <<"checkError", "vertex array object">>,
     <<"genBuffer", "vbo">>, <<"bufferData", "vbo">>,
     <<"checkError", "vertex data">>,
     <<"compileShader", "vertexShader">>, <<"checkError", "vertex shader">>,
     <<"compileShader", "fragmentShader">>, <<"checkError", "fragment shader">>,
     <<"linkProgram", "program">>, <<"checkError", "program">>,
     <<"attribPointer", "position">>, <<"checkError", "position attrib pointer">>,
     <<"attribPointer", "color">>, <<"checkError", "color attrib pointer">> >>

TriangleBody ==
  << <<"pollEvents", "">>,
     <<"clear", {"COLOR"}>>,
     <<"drawArrays", <<0, 6>>>>,
     <<"checkError", "main loop">>,
     <<"swapBuffers", "">> >>

QuadSetup ==
  << <<"glfwInit", "">>, <<"defer", "glfw">>, <<"windowHints", "">>,
     <<"createWindow", "">>, <<"defer", "window">>,
     <<"makeContextCurrent", "">>, <<"setKeyCallback", "">>,
     <<"glInit", "">>,
     <<"genVertexArray", "vao">>, <<"defer", "vao">>, <<"bindVertexArray", "">>,
     <<"checkError", "vertex array object">>,
     <<"genBuffer", "vbo">>, <<"defer", "vbo">>, <<"bufferData", "vbo">>,
     <<"checkError", "vertex data">>,
     <<"genBuffer", "ebo">>, <<"defer", "ebo">>, <<"bufferData", "ebo">>,
     <<"checkError", "element data">>,
     <<"open", "sample.png">>, <<"createTexture", "tex0">>, <<"defer", "tex0">>,
     <<"open", "sample2.png">>, <<"createTexture", "tex1">>, <<"defer", "tex1">>,
     <<"compileShader", "vertexShader">>, <<"checkError", "vertex shader">>,
     <<"compileShader", "fragmentShader">>, <<"checkError", "fragment shader">>,
     <<"linkProgram", "program">>, <<"checkError", "program">>,
     <<"attribPointer", "position">>, <<"checkError", "position attrib pointer">>,
     <<"attribPointer", "color">>, <<"checkError", "color attrib pointer">>,
     <<"attribPointer", "texcoord">>, <<"checkError", "texcoord attrib pointer">>,
     <<"textureUniforms", "">>,
     <<"uniformMatrix", "view">>, <<"uniformMatrix", "proj">>,
     <<"startTime", "">> >>

QuadBody ==
  << <<"pollEvents", "">>,
     <<"rotate", "">>,
     <<"clear", {"COLOR"}>>,
     <<"drawElements", 6>>,
     <<"checkError", "main loop">>,
     <<"swapBuffers", "">> >>

\* len(vertices): the GLfloat literals of the vertices array
LenVerticesNoFloor(p) ==
  CASE p = "cube" -> 288
    [] p = "triangle" -> 30
    [] p = "quad" -> 28

LenVertices(p) ==
  CASE p = "cube" -> 336
    [] p = "triangle" -> 30
    [] p = "quad" -> 28

\* the elements array of the quad program
Elements == << 0, 1, 2, 2, 3, 0 >>

\* x.AttribPointer(size, gl.FLOAT, false, stride*Sizeof(FLOAT), offset*Sizeof(FLOAT)):
\* the components, the stride and the offset as the call writes them, in floats
Attrib(p, name) ==
  CASE p = "cube" /\ name = "position" -> [size |-> 3, stride |-> 8, offset |-> 0]
    [] p = "cube" /\ name = "color" -> [size |-> 3, stride |-> 8, offset |-> 3]
    [] p = "cube" /\ name = "texcoord" -> [size |-> 2, stride |-> 8, offset |-> 6]
    [] p = "triangle" /\ name = "position" -> [size |-> 2, stride |-> 5, offset |-> 0]
    [] p = "triangle" /\ name = "color" -> [size |-> 3, stride |-> 5, offset |-> 2]
    [] p = "quad" /\ name = "position" -> [size |-> 2, stride |-> 7, offset |-> 0]
    [] p = "quad" /\ name = "color" -> [size |-> 3, stride |-> 7, offset |-> 2]
    [] p = "quad" /\ name = "texcoord" -> [size |-> 2, stride |-> 7, offset |-> 5]

Setup(p) ==
  CASE p = "context" -> ContextSetup
    [] p = "cube" -> CubeSetup
    [] p = "triangle" -> TriangleSetup
    [] p = "quad" -> QuadSetup

Body(p) ==
  CASE p = "context" -> ContextBody
    [] p = "cube" -> CubeBody
    [] p = "triangle" -> TriangleBody
    [] p = "quad" -> QuadBody

\* main: the setup statements, the for statement, its body, the end of main
Code(p) == Setup(p) \o << <<"loopHead", "">> >> \o Body(p) \o << <<"return", "">> >>

HeadPc(p) == Len(Setup(p)) + 1
LastBodyPc(p) == HeadPc(p) + Len(Body(p))
ReturnPc(p) == LastBodyPc(p) + 1

\* the statement executed after statement i completes without a panic
NextPc(p, i) == IF i = LastBodyPc(p) THEN HeadPc(p) ELSE i + 1

\* statements that issue calls into the GL library
GLOps ==
  {"glInit", "genBuffers", "enable", "disable", "genVertexArray", "bindVertexArray",
   "genBuffer", "bufferData", "createTexture", "compileShader", "linkProgram",
   "attribPointer", "overrideColor", "textureUniforms", "uniformMatrix", "clear",
   "rotate", "drawArrays", "drawElements", "stencilFunc", "stencilOp",
   "stencilMask", "depthMask", "reflectModel", "checkError"}

\* the uploads of buffers, textures and shaders
UploadOps ==
  {"genBuffers", "genVertexArray", "genBuffer", "bufferData", "createTexture",
   "compileShader", "linkProgram"}

\* ------------------------------------------------------------- state
VARIABLES
  prog,        \* which of the four programs runs
  pc,          \* index into Code(prog) of the next statement
  status,      \* "running", "returning", "panicking", "exited", "crashed"
  defers,      \* Go's stack of deferred calls, last pushed last
  panicMsg,    \* the value passed to panic, "" while there is none
  stderr,      \* the panic message the runtime printed at the crash
  failure,     \* the error a setup call reported (err, a false status), "" if none
  lastLog,     \* what the latest checkError call printed, "" if nothing
  glfwUp,      \* glfw.Init succeeded and glfw.Terminate has not run
  contextCurrent, \* the window's GL context is current
  keyCallback, \* handleKey is registered on the window
  shouldClose, \* the window's should-close flag
  polling,     \* a PollEvents call is delivering events
  delivered,   \* events the current PollEvents call has delivered
  lastEvent,   \* the event delivered last by the current PollEvents call
  created,     \* handles created so far
  released,    \* release calls made so far, in order
  compiled,    \* shaders compiled and program linked so far
  uploaded,    \* buffers whose data was uploaded
  glErr,       \* the GL error flag gl.GetError reads and clears
  gl,          \* GL server state the programs set
  sbuf,        \* the stencil buffer
  uniforms,    \* uniforms of the program: model, view, proj, overrideColor
  calls,       \* clears, draws and matrix uploads since the loop head (before the
               \* loop: since the start), each with the GL state it ran in
  polled,      \* checkError ran since the loop head
  frames,      \* completed frames (SwapBuffers calls in the loop), saturating
  now,         \* the last clock reading
  startTime,   \* main's startTime
  diffTime,    \* main's diffTime
  prevAngle,   \* the rotation angle of the previous frame, -1 before there is one
  textures,    \* main's textures array: the handle createTexture returned for each
  rgbaImg,     \* createTexture's decoded image, NoImage outside the call
  data,        \* createTexture's data slice, the bytes handed to gl.TexImage2D
  src,         \* createTexture's src, an offset into rgbaImg.Pix
  dest,        \* createTexture's dest, an offset into data
  arrayBuffer, \* bytes in the data store of the buffer bound to gl.ARRAY_BUFFER
  elementBuffer, \* the indices in the data store of the gl.ELEMENT_ARRAY_BUFFER buffer
  attribs      \* the vertex attribute pointers set, in bytes

vars ==
  << prog, pc, status, defers, panicMsg, stderr, failure, lastLog, glfwUp, contextCurrent,
     keyCallback, shouldClose, polling, delivered, lastEvent, created, released,
     compiled, uploaded, glErr, gl, sbuf, uniforms, calls, polled, frames, now,
     startTime, diffTime, prevAngle, textures, rgbaImg, data, src, dest,
     arrayBuffer, elementBuffer, attribs >>

Cur == Code(prog)[pc]
Running(op) == status = "running" /\ Cur[1] = op /\ ~polling

NoEvent == [type |-> "none", key |-> "", action |-> ""]
\* the vertex attributes of the shaders, and an attribute no pointer was set for
AttribNames == {"position", "color", "texcoord"}
NoAttrib == [size |-> 0, stride |-> 0, offset |-> 0]
\* no image: createTexture is not running
NoImage == [kind |-> "none", W |-> 0, H |-> 0, Stride |-> 0, Pix |-> << >>]
ZeroMatrix == [kind |-> "zero", angle |-> 0]

Init ==
  /\ prog \in Programs
  /\ pc = 1
  /\ status = "running"
  /\ defers = << >>
  /\ panicMsg = ""
  /\ stderr = ""
  /\ failure = ""
  /\ lastLog = ""
  /\ glfwUp = FALSE
  /\ contextCurrent = FALSE
  /\ keyCallback = FALSE
  /\ shouldClose = FALSE
  /\ polling = FALSE
  /\ delivered = 0
  /\ lastEvent = NoEvent
  /\ created = {}
  /\ released = << >>
  /\ compiled = {}
  /\ uploaded = {}
  /\ glErr = NoError
  /\ gl = [depthTest |-> FALSE, stencilTest |-> FALSE,
           stencilFunc |-> <<"ALWAYS", 0, FullMask>>,
           stencilOp |-> <<"KEEP", "KEEP", "KEEP">>,
           stencilMask |-> FullMask, depthMask |-> TRUE]
  /\ sbuf = [x \in Pixels |-> 0]
  /\ uniforms = [model |-> ZeroMatrix, view |-> "unset", proj |-> "unset",
                 overrideColor |-> "unset"]
  /\ calls = << >>
  /\ polled = FALSE
  /\ frames = 0
  /\ now = 0
  /\ startTime = 0
  /\ diffTime = 0
  /\ prevAngle = -1
  /\ textures = [t \in {"tex0", "tex1"} |-> ZeroTexture]
  /\ rgbaImg = NoImage
  /\ data = << >>
  /\ src = 0
  /\ dest = 0
  /\ arrayBuffer = 0
  /\ elementBuffer = << >>
  /\ attribs = [a \in AttribNames |-> NoAttrib]

\* ------------------------------------------------------------- helpers
\* the GL error flag after a GL call: the first error is kept until it is read
Raise(e) == IF e = NoError THEN {NoError} \cup ErrCodes ELSE {e}

\* the statement completes and control moves on
Advance ==
  /\ pc' = NextPc(prog, pc)
  /\ UNCHANGED << prog, status, defers, panicMsg, stderr, failure >>

\* panic(msg): main stops at this statement and unwinds
Panic(msg) ==
  /\ status' = "panicking"
  /\ panicMsg' = msg
  /\ UNCHANGED << prog, pc, defers, stderr >>

\* a setup call reports an error and main panics with it
Fail(msg) == failure' = msg /\ Panic(msg)

Min(a, b) == IF a < b THEN a ELSE b

RECURSIVE Pow2(_)
Pow2(n) == IF n = 0 THEN 1 ELSE 2 * Pow2(n - 1)

\* bitwise and of two 8-bit values
RECURSIVE BitAndN(_, _, _)
BitAndN(a, b, n) ==
  IF n = 0 THEN 0
  ELSE (a % 2) * (b % 2) + 2 * BitAndN(a \div 2, b \div 2, n - 1)

BitAnd(a, b) == BitAndN(a, b, 8)

\* the binary exponent float32 gives a natural number: the least e with n < 2^(24+e)
RECURSIVE Exponent(_, _)
Exponent(n, e) == IF n < Pow2(MantissaBits + e) THEN e ELSE Exponent(n, e + 1)

\* float32(x) for a natural number of ticks: round to nearest, ties to even
Float32(n) ==
  LET u == Pow2(Exponent(n, 0))
      q == n \div u
      r == n % u
  IN  IF 2 * r > u \/ (2 * r = u /\ q % 2 = 1) THEN (q + 1) * u ELSE q * u

\* the angle reduced to one turn, [0, 2 pi)
AngleWrapped(d) == Float32(d) % 2

\* math.Pi * float32(diffTime.Seconds()), as the coefficient of pi per tick
AngleOf(d) == Float32(d)

\* glm.HomogRotate3DZ(angle)
RotateZ(a) == [kind |-> "rotZ", angle |-> a]

\* model.Mul4(Translate3D(0,0,-1)).Mul4(Scale3D(1,1,-1))
Reflect(m) == [kind |-> m.kind \o ".translate.scale", angle |-> m.angle]

\* handleKey without its test of the action: Escape closes on Release and Repeat too
HandleKeyAnyAction(flag, k, action) ==
  IF k = "Escape" THEN TRUE ELSE flag

\* handleKey's effect on the window's should-close flag
HandleKeyFlag(flag, k, action) ==
  IF action # "Press" THEN flag
  ELSE IF k = "Escape" THEN TRUE ELSE flag

\* checkError's output for the error code gl.GetError returned
CheckErrorLog(prefix, e) ==
  IF e = NoError THEN ""
  ELSE IF e = "UNKNOWN_CODE" THEN prefix \o ": unspecified error!"
  ELSE prefix \o " error: " \o e

\* an entry of the log of calls: the call, the matrix in the model uniform (for an
\* upload, the matrix uploaded), the GL state it ran in, the pixels it wrote and
\* the stencil buffer it left
Call(op, arg, value, g, written, stencil) ==
  [op |-> op, arg |-> arg, value |-> value, gl |-> g, written |-> written,
   stencil |-> stencil]

\* the stencil test of one fragment against the stored value v
StencilPasses(g, v) ==
  LET f == g.stencilFunc
  IN  CASE f[1] = "ALWAYS" -> TRUE
        [] f[1] = "EQUAL" -> BitAnd(f[2], f[3]) = BitAnd(v, f[3])
        [] OTHER -> FALSE

\* a stencil operation on the stored value v, through the write mask
ApplyOp(op, g, v) ==
  IF op = "REPLACE"
  THEN BitAnd(v, FullMask - g.stencilMask) + BitAnd(g.stencilFunc[2], g.stencilMask)
  ELSE v

\* A draw call rasterises the pixels in cover; dpass are those whose fragment
\* passes the depth test. The result: the pixels written and the stencil buffer.
DrawEffect(g, sb, cover, dpass) ==
  LET sp(x) == ~g.stencilTest \/ StencilPasses(g, sb[x])
      dp(x) == ~g.depthTest \/ x \in dpass
      opAt(x) == IF ~sp(x) THEN g.stencilOp[1]
                 ELSE IF ~dp(x) THEN g.stencilOp[2] ELSE g.stencilOp[3]
  IN  [written |-> {x \in cover : sp(x) /\ dp(x)},
       sbuf |-> [x \in Pixels |->
                  IF x \in cover /\ g.stencilTest
                  THEN ApplyOp(opAt(x), g, sb[x]) ELSE sb[x]]]

\* gl.Clear of the stencil buffer: the clear value 0 through the write mask
ClearStencil(g, sb) == [x \in Pixels |-> BitAnd(sb[x], FullMask - g.stencilMask)]

\* ------------------------------------------------------------- textures
\* how the bytes of a decoded file are filled in: every byte tagged with its offset,
\* every byte tagged with its row, all bytes zero
Fills == {"offset", "row", "blank"}

Fill(f, i, w) ==
  CASE f = "offset" -> i % 256
    [] f = "row" -> i \div (w * BytesPerPixel)
    [] f = "blank" -> 0

\* the *image.NRGBA png.Decode yields for an NRGBA file of w by h pixels: the rows
\* lie back to back, Stride bytes each (Pix is indexed from 0 in Go, from 1 here)
NRGBA(w, h, f) ==
  [kind |-> "NRGBA", W |-> w, H |-> h, Stride |-> w * BytesPerPixel,
   Pix |-> [i \in 1..(w * h * BytesPerPixel) |-> Fill(f, i - 1, w)]]

\* what the io.Reader handed to createTexture may hold
Inputs ==
  {[NoImage EXCEPT !.kind = k] : k \in {"not a PNG", "RGBA"}}
  \cup {NRGBA(w, h, f) : w \in 1..MaxWidth, h \in 1..MaxHeight, f \in Fills}

\* the error createTexture returns before any GL call: png.Decode failed, or the
\* type assertion img.(*image.NRGBA) did; "" for nil
DecodeError(in) ==
  IF in.kind = "not a PNG" THEN "png: invalid format"
  ELSE IF in.kind # "NRGBA" THEN "texture must be an NRGBA image"
  ELSE ""

\* lineLen := imgWidth * 4
lineLen == rgbaImg.W * BytesPerPixel

\* dest := len(data) - lineLen, the offset of the last row of data
FirstDestZero(n, len) == 0

FirstDest(n, len) == n - len

\* Go evaluates s[lo:hi] only if 0 <= lo <= hi <= cap(s), and panics otherwise
SliceOk(s, lo, hi) == 0 <= lo /\ lo <= hi /\ hi <= Len(s)

\* s[lo:hi]
Slice(s, lo, hi) == SubSeq(s, lo + 1, hi)

\* copy(d[lo:hi], s): the first min(hi - lo, len(s)) bytes of s overwrite d from lo on
CopyInto(d, lo, hi, s) ==
  [i \in 1..Len(d) |->
     IF i > lo /\ i <= lo + Min(hi - lo, Len(s)) THEN s[i - lo] ELSE d[i]]

\* gl.GenTexture(): a name that is not zero and not in use
GenTexture == Cardinality({t \in DOMAIN textures : textures[t] # ZeroTexture}) + 1

\* createTexture is between its first GL call and its return
InCreateTexture == Running("createTexture") /\ rgbaImg # NoImage

\* createTexture returns, or main unwinds through it: its locals are gone
LeaveCreateTexture == rgbaImg' = NoImage /\ data' = << >> /\ src' = 0 /\ dest' = 0

ctlVars == << prog, pc, status, defers, panicMsg, stderr, failure >>
winVars == << glfwUp, contextCurrent, keyCallback, shouldClose, polling, delivered, lastEvent >>
resVars == << created, released, compiled, uploaded >>
glVars == << glErr, gl, sbuf, uniforms >>
frameVars == << lastLog, calls, polled, frames >>
clockVars == << now, startTime, diffTime, prevAngle >>
texVars == << textures, rgbaImg, data, src, dest >>
vtxVars == << arrayBuffer, elementBuffer, attribs >>

\* ------------------------------------------------------------- setup
\* if !glfw.Init() { panic("Can't init glfw!") }
GlfwInit ==
  /\ Running("glfwInit")
  /\ \E ok \in BOOLEAN :
       IF ok THEN glfwUp' = TRUE /\ Advance
       ELSE glfwUp' = FALSE /\ Fail("Can't init glfw!")
  /\ UNCHANGED << contextCurrent, keyCallback, shouldClose, polling, delivered, lastEvent >>
  /\ UNCHANGED << resVars, glVars, frameVars, clockVars >>
  /\ UNCHANGED texVars
  /\ UNCHANGED vtxVars

\* the call made at once, the defer keyword missing
DeferRunsNow ==
  /\ Running("defer")
  /\ released' = Append(released, Cur[2])
  /\ glfwUp' = IF Cur[2] = "glfw" THEN FALSE ELSE glfwUp
  /\ contextCurrent' = IF Cur[2] \in {"glfw", "window"} THEN FALSE ELSE contextCurrent
  /\ Advance
  /\ UNCHANGED << keyCallback, shouldClose, polling, delivered, lastEvent >>
  /\ UNCHANGED << created, compiled, uploaded, glVars, frameVars, clockVars >>
  /\ UNCHANGED texVars
  /\ UNCHANGED vtxVars

\* defer glfw.Terminate() / window.Destroy() / x.Delete()
Defer ==
  /\ Running("defer")
  /\ defers' = Append(defers, Cur[2])
  /\ pc' = NextPc(prog, pc)
  /\ UNCHANGED << prog, status, panicMsg, stderr, failure >>
  /\ UNCHANGED << winVars, resVars, glVars, frameVars, clockVars >>
  /\ UNCHANGED texVars
  /\ UNCHANGED vtxVars

\* glfw.WindowHint(...), five times
WindowHints ==
  /\ Running("windowHints")
  /\ Advance
  /\ UNCHANGED << winVars, resVars, glVars, frameVars, clockVars >>
  /\ UNCHANGED texVars
  /\ UNCHANGED vtxVars

\* monitor, err = glfw.GetPrimaryMonitor(); if err != nil { panic(err) }
GetPrimaryMonitor ==
  /\ Running("getPrimaryMonitor")
  /\ \E ok \in BOOLEAN :
       IF ok THEN Advance ELSE Fail("GetPrimaryMonitor: error")
  /\ UNCHANGED << winVars, resVars, glVars, frameVars, clockVars >>
  /\ UNCHANGED texVars
  /\ UNCHANGED vtxVars

\* window, err = glfw.CreateWindow(...); if err != nil { panic(err) }
\* The new framebuffer's stencil contents are undefined.
CreateWindow ==
  /\ Running("createWindow")
  /\ \E ok \in BOOLEAN :
       IF ok
       THEN /\ created' = created \cup {"window"}
            /\ sbuf' \in [Pixels -> {0, 1}]
            /\ Advance
       ELSE /\ UNCHANGED << created, sbuf >>
            /\ Fail("CreateWindow: error")
  /\ UNCHANGED << winVars, released, compiled, uploaded, glErr, gl, uniforms >>
  /\ UNCHANGED << frameVars, clockVars >>
  /\ UNCHANGED texVars
  /\ UNCHANGED vtxVars

\* window.MakeContextCurrent()
MakeContextCurrent ==
  /\ Running("makeContextCurrent")
  /\ contextCurrent' = TRUE
  /\ Advance
  /\ UNCHANGED << glfwUp, keyCallback, shouldClose, polling, delivered, lastEvent >>
  /\ UNCHANGED << resVars, glVars, frameVars, clockVars >>
  /\ UNCHANGED texVars
  /\ UNCHANGED vtxVars

\* window.SetKeyCallback(handleKey)
SetKeyCallback ==
  /\ Running("setKeyCallback")
  /\ keyCallback' = TRUE
  /\ Advance
  /\ UNCHANGED << glfwUp, contextCurrent, shouldClose, polling, delivered, lastEvent >>
  /\ UNCHANGED << resVars, glVars, frameVars, clockVars >>
  /\ UNCHANGED texVars
  /\ UNCHANGED vtxVars

\* gl.Init(); gl.GetError(): the result of Init is dropped and the error flag cleared
\* (the context program has no GetError call and keeps the flag)
GlInit ==
  /\ Running("glInit")
  /\ glErr' \in (IF prog = "context" THEN Raise(glErr) ELSE {NoError})
  /\ Advance
  /\ UNCHANGED << winVars, resVars, gl, sbuf, uniforms, frameVars, clockVars >>
  /\ UNCHANGED texVars
  /\ UNCHANGED vtxVars

\* gl.GenBuffers(buffers); fmt.Println(buffers)
GenBuffers ==
  /\ Running("genBuffers")
  /\ created' = created \cup {Cur[2]}
  /\ glErr' \in Raise(glErr)
  /\ Advance
  /\ UNCHANGED << winVars, released, compiled, uploaded, gl, sbuf, uniforms >>
  /\ UNCHANGED << frameVars, clockVars >>
  /\ UNCHANGED texVars
  /\ UNCHANGED vtxVars

\* gl.Enable(cap)
Enable ==
  /\ Running("enable")
  /\ gl' = IF Cur[2] = "DEPTH_TEST" THEN [gl EXCEPT !.depthTest = TRUE]
           ELSE [gl EXCEPT !.stencilTest = TRUE]
  /\ glErr' \in Raise(glErr)
  /\ Advance
  /\ UNCHANGED << winVars, resVars, sbuf, uniforms, frameVars, clockVars >>
  /\ UNCHANGED texVars
  /\ UNCHANGED vtxVars

\* gl.Disable(cap)
Disable ==
  /\ Running("disable")
  /\ gl' = IF Cur[2] = "DEPTH_TEST" THEN [gl EXCEPT !.depthTest = FALSE]
           ELSE [gl EXCEPT !.stencilTest = FALSE]
  /\ glErr' \in Raise(glErr)
  /\ Advance
  /\ UNCHANGED << winVars, resVars, sbuf, uniforms, frameVars, clockVars >>
  /\ UNCHANGED texVars
  /\ UNCHANGED vtxVars

\* vao = gl.GenVertexArray()
GenVertexArray ==
  /\ Running("genVertexArray")
  /\ created' = created \cup {Cur[2]}
  /\ glErr' \in Raise(glErr)
  /\ Advance
  /\ UNCHANGED << winVars, released, compiled, uploaded, gl, sbuf, uniforms >>
  /\ UNCHANGED << frameVars, clockVars >>
  /\ UNCHANGED texVars
  /\ UNCHANGED vtxVars

\* vao.Bind()
BindVertexArray ==
  /\ Running("bindVertexArray")
  /\ glErr' \in Raise(glErr)
  /\ Advance
  /\ UNCHANGED << winVars, resVars, gl, sbuf, uniforms, frameVars, clockVars >>
  /\ UNCHANGED texVars
  /\ UNCHANGED vtxVars

\* vbo = gl.GenBuffer()    (ebo likewise)
GenBuffer ==
  /\ Running("genBuffer")
  /\ created' = created \cup {Cur[2]}
  /\ glErr' \in Raise(glErr)
  /\ Advance
  /\ UNCHANGED << winVars, released, compiled, uploaded, gl, sbuf, uniforms >>
  /\ UNCHANGED << frameVars, clockVars >>
  /\ UNCHANGED texVars
  /\ UNCHANGED vtxVars

\* the buffer bound but no data uploaded
BufferDataSkipped ==
  /\ Running("bufferData")
  /\ glErr' \in Raise(glErr)
  /\ Advance
  /\ UNCHANGED << winVars, resVars, gl, sbuf, uniforms, frameVars, clockVars >>
  /\ UNCHANGED texVars
  /\ UNCHANGED vtxVars

\* vbo.Bind(gl.ARRAY_BUFFER); gl.BufferData(...)
BufferData ==
  /\ Running("bufferData")
  /\ uploaded' = uploaded \cup {Cur[2]}
  /\ arrayBuffer' = IF Cur[2] = "vbo" THEN SizeofFloat * LenVertices(prog)
                    ELSE arrayBuffer
  /\ elementBuffer' = IF Cur[2] = "ebo" THEN Elements ELSE elementBuffer
  /\ UNCHANGED attribs
  /\ glErr' \in Raise(glErr)
  /\ Advance
  /\ UNCHANGED << winVars, created, released, compiled, gl, sbuf, uniforms >>
  /\ UNCHANGED << frameVars, clockVars >>
  /\ UNCHANGED texVars

\* checkError that panics on an error instead of printing it
CheckErrorFatal ==
  /\ Running("checkError")
  /\ lastLog' = CheckErrorLog(Cur[2], glErr)
  /\ glErr' = NoError
  /\ polled' = TRUE
  /\ IF glErr = NoError THEN Advance ELSE Fail(CheckErrorLog(Cur[2], glErr))
  /\ UNCHANGED << winVars, resVars, gl, sbuf, uniforms, calls, frames, clockVars >>
  /\ UNCHANGED texVars
  /\ UNCHANGED vtxVars

\* checkError(prefix): read and clear the GL error flag, print it if it is set
CheckError ==
  /\ Running("checkError")
  /\ lastLog' = CheckErrorLog(Cur[2], glErr)
  /\ glErr' = NoError
  /\ polled' = TRUE
  /\ Advance
  /\ UNCHANGED << winVars, resVars, gl, sbuf, uniforms, calls, frames, clockVars >>
  /\ UNCHANGED texVars
  /\ UNCHANGED vtxVars

\* sample, err := os.Open(name); if err != nil { panic(err) }
OpenFile ==
  /\ Running("open")
  /\ \E ok \in BOOLEAN :
       IF ok THEN Advance ELSE Fail("open " \o Cur[2] \o ": error")
  /\ UNCHANGED << winVars, resVars, glVars, frameVars, clockVars >>
  /\ UNCHANGED texVars
  /\ UNCHANGED vtxVars

\* gl.ActiveTexture(unit); textures[i], err = createTexture(file);
\* if err != nil { panic(err) }
\* createTexture with the GL texture generated before the image is looked at, and
\* main going on whatever createTexture returned
CreateTextureUnchecked ==
  /\ Running("createTexture")
  /\ rgbaImg = NoImage
  /\ \E in \in Inputs :
       /\ created' = created \cup {Cur[2]}
       /\ textures' = [textures EXCEPT ![Cur[2]] = GenTexture]
       /\ glErr' \in Raise(glErr)
       /\ IF DecodeError(in) = ""
          THEN /\ rgbaImg' = in
               /\ data' = [i \in 1..(in.W * in.H * BytesPerPixel) |-> 0]
               /\ src' = 0
               /\ dest' = FirstDest(in.W * in.H * BytesPerPixel, in.W * BytesPerPixel)
               /\ UNCHANGED ctlVars
          ELSE /\ LeaveCreateTexture
               /\ failure' = DecodeError(in)
               /\ pc' = NextPc(prog, pc)
               /\ UNCHANGED << prog, status, defers, panicMsg, stderr >>
  /\ UNCHANGED << winVars, released, compiled, uploaded, gl, sbuf, uniforms >>
  /\ UNCHANGED << frameVars, clockVars >>
  /\ UNCHANGED vtxVars

\* the call of createTexture up to its copy loop: png.Decode, the type assertion,
\* gl.GenTexture, Bind, the two filters, data := make([]byte, ...), lineLen, dest;
\* on an error createTexture returns gl.Texture(0) and main panics with the error
CreateTexture ==
  /\ Running("createTexture")
  /\ rgbaImg = NoImage
  /\ \E in \in Inputs :
       IF DecodeError(in) = ""
       THEN /\ created' = created \cup {Cur[2]}
            /\ textures' = [textures EXCEPT ![Cur[2]] = GenTexture]
            /\ rgbaImg' = in
            /\ data' = [i \in 1..(in.W * in.H * BytesPerPixel) |-> 0]
            /\ src' = 0
            /\ dest' = FirstDest(in.W * in.H * BytesPerPixel, in.W * BytesPerPixel)
            /\ glErr' \in Raise(glErr)
            /\ UNCHANGED ctlVars
       ELSE /\ textures' = [textures EXCEPT ![Cur[2]] = ZeroTexture]
            /\ UNCHANGED << created, rgbaImg, data, src, dest >>
            /\ glErr' \in Raise(glErr)
            /\ Fail(DecodeError(in))
  /\ UNCHANGED << winVars, released, compiled, uploaded, gl, sbuf, uniforms >>
  /\ UNCHANGED << frameVars, clockVars >>
  /\ UNCHANGED vtxVars

\* one turn of for src := 0; src < len(rgbaImg.Pix); src += rgbaImg.Stride:
\* copy(data[dest:dest+lineLen], rgbaImg.Pix[src:src+rgbaImg.Stride]); dest -= lineLen
\* (a slice expression out of range is a run-time panic)
CopyRow ==
  /\ InCreateTexture
  /\ src < Len(rgbaImg.Pix)
  /\ IF /\ SliceOk(data, dest, dest + lineLen)
        /\ SliceOk(rgbaImg.Pix, src, src + rgbaImg.Stride)
     THEN /\ data' = CopyInto(data, dest, dest + lineLen,
                              Slice(rgbaImg.Pix, src, src + rgbaImg.Stride))
          /\ dest' = dest - lineLen
          /\ src' = src + rgbaImg.Stride
          /\ UNCHANGED << ctlVars, textures, rgbaImg >>
     ELSE /\ LeaveCreateTexture
          /\ Panic("runtime error: slice bounds out of range")
          /\ UNCHANGED << failure, textures >>
  /\ UNCHANGED << winVars, resVars, glVars, frameVars, clockVars >>
  /\ UNCHANGED vtxVars

\* the loop is over: gl.TexImage2D(..., imgWidth, imgHeight, ..., data) and
\* return textureId, nil; main goes on with the texture
TexImage2D ==
  /\ InCreateTexture
  /\ src >= Len(rgbaImg.Pix)
  /\ uploaded' = uploaded \cup {Cur[2]}
  /\ glErr' \in Raise(glErr)
  /\ LeaveCreateTexture
  /\ Advance
  /\ UNCHANGED << winVars, created, released, compiled, gl, sbuf, uniforms >>
  /\ UNCHANGED << frameVars, clockVars, textures >>
  /\ UNCHANGED vtxVars

\* a shader compiled without the test of COMPILE_STATUS
CompileShaderUnchecked ==
  /\ Running("compileShader")
  /\ created' = created \cup {Cur[2]}
  /\ glErr' \in Raise(glErr)
  /\ \E ok \in BOOLEAN :
       /\ compiled' = IF ok THEN compiled \cup {Cur[2]} ELSE compiled
       /\ failure' = IF ok THEN "" ELSE Cur[2] \o " compilation error"
  /\ pc' = NextPc(prog, pc)
  /\ UNCHANGED << prog, status, defers, panicMsg, stderr >>
  /\ UNCHANGED << winVars, released, uploaded, gl, sbuf, uniforms >>
  /\ UNCHANGED << frameVars, clockVars >>
  /\ UNCHANGED texVars
  /\ UNCHANGED vtxVars

\* s = gl.CreateShader(kind); s.Source(src); s.Compile();
\* if s.Get(gl.COMPILE_STATUS) != gl.TRUE { panic(...) }
CompileShader ==
  /\ Running("compileShader")
  /\ created' = created \cup {Cur[2]}
  /\ glErr' \in Raise(glErr)
  /\ \E ok \in BOOLEAN :
       IF ok
       THEN compiled' = compiled \cup {Cur[2]} /\ Advance
       ELSE UNCHANGED compiled /\ Fail(Cur[2] \o " compilation error")
  /\ UNCHANGED << winVars, released, uploaded, gl, sbuf, uniforms >>
  /\ UNCHANGED << frameVars, clockVars >>
  /\ UNCHANGED texVars
  /\ UNCHANGED vtxVars

\* program = gl.CreateProgram(); attach both shaders; Link(); Use(); Validate();
\* if program.Get(gl.VALIDATE_STATUS) != gl.TRUE { panic(...) }
\* A program that did not link cannot execute, so it does not validate.
LinkProgram ==
  /\ Running("linkProgram")
  /\ created' = created \cup {Cur[2]}
  /\ glErr' \in Raise(glErr)
  /\ \E linked \in BOOLEAN, valid \in BOOLEAN :
       IF linked /\ valid
       THEN compiled' = compiled \cup {Cur[2]} /\ Advance
       ELSE UNCHANGED compiled /\ Fail("program error")
  /\ UNCHANGED << winVars, released, uploaded, gl, sbuf, uniforms >>
  /\ UNCHANGED << frameVars, clockVars >>
  /\ UNCHANGED texVars
  /\ UNCHANGED vtxVars

\* a = program.GetAttribLocation(name); a.EnableArray(); a.AttribPointer(...)
AttribPointer ==
  /\ Running("attribPointer")
  /\ attribs' = [attribs EXCEPT ![Cur[2]] =
                  [size |-> Attrib(prog, Cur[2]).size,
                   stride |-> Attrib(prog, Cur[2]).stride * SizeofFloat,
                   offset |-> Attrib(prog, Cur[2]).offset * SizeofFloat]]
  /\ UNCHANGED << arrayBuffer, elementBuffer >>
  /\ glErr' \in Raise(glErr)
  /\ Advance
  /\ UNCHANGED << winVars, resVars, gl, sbuf, uniforms, frameVars, clockVars >>
  /\ UNCHANGED texVars

\* overrideColorLocation.Uniform3f(1,1,1) or (0.3,0.3,0.3)
OverrideColor ==
  /\ Running("overrideColor")
  /\ uniforms' = [uniforms EXCEPT !.overrideColor = Cur[2]]
  /\ glErr' \in Raise(glErr)
  /\ Advance
  /\ UNCHANGED << winVars, resVars, gl, sbuf, frameVars, clockVars >>
  /\ UNCHANGED texVars
  /\ UNCHANGED vtxVars

\* texKittenLocation.Uniform1i(0); texPuppyLocation.Uniform1i(1)
TextureUniforms ==
  /\ Running("textureUniforms")
  /\ glErr' \in Raise(glErr)
  /\ Advance
  /\ UNCHANGED << winVars, resVars, gl, sbuf, uniforms, frameVars, clockVars >>
  /\ UNCHANGED texVars
  /\ UNCHANGED vtxVars

\* view = glm.LookAtV(...); viewLocation.UniformMatrix4fv(false, view)
\* proj = glm.Perspective(...); projLocation.UniformMatrix4fv(false, proj)
UniformMatrix ==
  /\ Running("uniformMatrix")
  /\ uniforms' = IF Cur[2] = "view" THEN [uniforms EXCEPT !.view = "lookAt"]
                 ELSE [uniforms EXCEPT !.proj = "perspective"]
  /\ calls' = Append(calls, Call("uniform", Cur[2], uniforms'[Cur[2]], gl, {}, sbuf))
  /\ glErr' \in Raise(glErr)
  /\ Advance
  /\ UNCHANGED << winVars, resVars, gl, sbuf, lastLog, polled, frames, clockVars >>
  /\ UNCHANGED texVars
  /\ UNCHANGED vtxVars

\* startTime = time.Now()
StartTime ==
  /\ Running("startTime")
  /\ \E t \in now..MaxNow : now' = t /\ startTime' = t
  /\ Advance
  /\ UNCHANGED << winVars, resVars, glVars, frameVars, diffTime, prevAngle >>
  /\ UNCHANGED texVars
  /\ UNCHANGED vtxVars

\* ------------------------------------------------------------- render loop
\* for !window.ShouldClose() { ... }: the test at the head of every iteration
LoopHead ==
  /\ Running("loopHead")
  /\ IF shouldClose
     THEN /\ pc' = ReturnPc(prog)
          /\ UNCHANGED << lastLog, calls, polled >>
     ELSE /\ pc' = pc + 1
          /\ lastLog' = ""
          /\ calls' = << >>
          /\ polled' = FALSE
  /\ UNCHANGED << prog, status, defers, panicMsg, stderr, failure, frames >>
  /\ UNCHANGED << winVars, resVars, glVars, clockVars >>
  /\ UNCHANGED texVars
  /\ UNCHANGED vtxVars

\* glfw.PollEvents() is entered
PollEvents ==
  /\ Running("pollEvents")
  /\ polling' = TRUE
  /\ delivered' = 0
  /\ lastEvent' = NoEvent
  /\ UNCHANGED << glfwUp, contextCurrent, keyCallback, shouldClose >>
  /\ UNCHANGED << ctlVars, resVars, glVars, frameVars, clockVars >>
  /\ UNCHANGED texVars
  /\ UNCHANGED vtxVars

\* PollEvents delivers a key event: handleKey(window, k, s, action, mods)
HandleKey ==
  /\ status = "running" /\ polling /\ keyCallback
  /\ delivered < MaxEvents
  /\ \E k \in Keys, action \in KeyActions :
       /\ shouldClose' = HandleKeyFlag(shouldClose, k, action)
       /\ lastEvent' = [type |-> "key", key |-> k, action |-> action]
  /\ delivered' = delivered + 1
  /\ UNCHANGED << glfwUp, contextCurrent, keyCallback, polling >>
  /\ UNCHANGED << ctlVars, resVars, glVars, frameVars, clockVars >>
  /\ UNCHANGED texVars
  /\ UNCHANGED vtxVars

\* PollEvents delivers a close request of the user: the library sets the flag
WindowClose ==
  /\ status = "running" /\ polling
  /\ delivered < MaxEvents
  /\ shouldClose' = TRUE
  /\ lastEvent' = [type |-> "close", key |-> "", action |-> ""]
  /\ delivered' = delivered + 1
  /\ UNCHANGED << glfwUp, contextCurrent, keyCallback, polling >>
  /\ UNCHANGED << ctlVars, resVars, glVars, frameVars, clockVars >>
  /\ UNCHANGED texVars
  /\ UNCHANGED vtxVars

\* PollEvents followed by a test of the flag that leaves the loop at once
PollReturnBreaks ==
  /\ status = "running" /\ polling
  /\ polling' = FALSE
  /\ delivered' = 0
  /\ lastEvent' = NoEvent
  /\ pc' = IF shouldClose THEN ReturnPc(prog) ELSE NextPc(prog, pc)
  /\ UNCHANGED << prog, status, defers, panicMsg, stderr, failure >>
  /\ UNCHANGED << glfwUp, contextCurrent, keyCallback, shouldClose >>
  /\ UNCHANGED << resVars, glVars, frameVars, clockVars >>
  /\ UNCHANGED texVars
  /\ UNCHANGED vtxVars

\* glfw.PollEvents() returns
PollReturn ==
  /\ status = "running" /\ polling
  /\ polling' = FALSE
  /\ delivered' = 0
  /\ lastEvent' = NoEvent
  /\ Advance
  /\ UNCHANGED << glfwUp, contextCurrent, keyCallback, shouldClose >>
  /\ UNCHANGED << resVars, glVars, frameVars, clockVars >>
  /\ UNCHANGED texVars
  /\ UNCHANGED vtxVars

\* gl.Viewport(...); gl.ClearColor(...); gl.Clear(bits)
\* (the stencil clear of the cube is a gl.Clear alone)
Clear ==
  /\ Running("clear")
  /\ sbuf' = IF "STENCIL" \in Cur[2] THEN ClearStencil(gl, sbuf) ELSE sbuf
  /\ calls' = Append(calls, Call("clear", Cur[2], uniforms.model, gl, {}, sbuf'))
  /\ glErr' \in Raise(glErr)
  /\ Advance
  /\ UNCHANGED << winVars, resVars, gl, uniforms, lastLog, polled, frames, clockVars >>
  /\ UNCHANGED texVars
  /\ UNCHANGED vtxVars

\* the rotation computed but not uploaded
RotateNoUpload ==
  /\ Running("rotate")
  /\ \E t \in now..MaxNow :
       /\ now' = t
       /\ diffTime' = t - startTime
  /\ UNCHANGED << uniforms, prevAngle, calls >>
  /\ glErr' \in Raise(glErr)
  /\ Advance
  /\ UNCHANGED << winVars, resVars, gl, sbuf, lastLog, polled, frames, startTime >>
  /\ UNCHANGED texVars
  /\ UNCHANGED vtxVars

\* diffTime = time.Since(startTime)
\* model = glm.HomogRotate3DZ(math.Pi * float32(diffTime.Seconds()))
\* modelLocation.UniformMatrix4fv(false, model)
Rotate ==
  /\ Running("rotate")
  /\ \E t \in now..MaxNow :
       /\ now' = t
       /\ diffTime' = t - startTime
       /\ uniforms' = [uniforms EXCEPT !.model = RotateZ(AngleOf(t - startTime))]
  /\ prevAngle' = IF uniforms.model.kind = "zero" THEN -1 ELSE uniforms.model.angle
  /\ calls' = Append(calls, Call("uniform", "model", uniforms'.model, gl, {}, sbuf))
  /\ glErr' \in Raise(glErr)
  /\ Advance
  /\ UNCHANGED << winVars, resVars, gl, sbuf, lastLog, polled, frames, startTime >>
  /\ UNCHANGED texVars
  /\ UNCHANGED vtxVars

\* model = model.Mul4(glm.Translate3D(0,0,-1)).Mul4(glm.Scale3D(1,1,-1))
\* modelLocation.UniformMatrix4fv(false, model)
ReflectModel ==
  /\ Running("reflectModel")
  /\ uniforms' = [uniforms EXCEPT !.model = Reflect(uniforms.model)]
  /\ calls' = Append(calls, Call("uniform", "model", uniforms'.model, gl, {}, sbuf))
  /\ glErr' \in Raise(glErr)
  /\ Advance
  /\ UNCHANGED << winVars, resVars, gl, sbuf, lastLog, polled, frames, clockVars >>
  /\ UNCHANGED texVars
  /\ UNCHANGED vtxVars

\* gl.DrawArrays(gl.TRIANGLES, first, count)
DrawArrays ==
  /\ Running("drawArrays")
  /\ \E cover \in SUBSET Pixels :
       \E dpass \in (IF gl.depthTest THEN SUBSET cover ELSE {cover}) :
         LET r == DrawEffect(gl, sbuf, cover, dpass)
         IN  /\ sbuf' = r.sbuf
             /\ calls' = Append(calls, Call("draw", Cur[2], uniforms.model, gl,
                                            r.written, r.sbuf))
  /\ glErr' \in Raise(glErr)
  /\ Advance
  /\ UNCHANGED << winVars, resVars, gl, uniforms, lastLog, polled, frames, clockVars >>
  /\ UNCHANGED texVars
  /\ UNCHANGED vtxVars

\* gl.DrawElements(gl.TRIANGLES, count, gl.UNSIGNED_INT, nil)
DrawElements ==
  /\ Running("drawElements")
  /\ \E cover \in SUBSET Pixels :
       \E dpass \in (IF gl.depthTest THEN SUBSET cover ELSE {cover}) :
         LET r == DrawEffect(gl, sbuf, cover, dpass)
         IN  /\ sbuf' = r.sbuf
             /\ calls' = Append(calls, Call("draw", Cur[2], uniforms.model, gl,
                                            r.written, r.sbuf))
  /\ glErr' \in Raise(glErr)
  /\ Advance
  /\ UNCHANGED << winVars, resVars, gl, uniforms, lastLog, polled, frames, clockVars >>
  /\ UNCHANGED texVars
  /\ UNCHANGED vtxVars

\* gl.StencilFunc(func, ref, mask)
StencilFunc ==
  /\ Running("stencilFunc")
  /\ gl' = [gl EXCEPT !.stencilFunc = Cur[2]]
  /\ glErr' \in Raise(glErr)
  /\ Advance
  /\ UNCHANGED << winVars, resVars, sbuf, uniforms, frameVars, clockVars >>
  /\ UNCHANGED texVars
  /\ UNCHANGED vtxVars

\* gl.StencilOp(sfail, dpfail, dppass)
StencilOp ==
  /\ Running("stencilOp")
  /\ gl' = [gl EXCEPT !.stencilOp = Cur[2]]
  /\ glErr' \in Raise(glErr)
  /\ Advance
  /\ UNCHANGED << winVars, resVars, sbuf, uniforms, frameVars, clockVars >>
  /\ UNCHANGED texVars
  /\ UNCHANGED vtxVars

\* gl.StencilMask(mask)
StencilMask ==
  /\ Running("stencilMask")
  /\ gl' = [gl EXCEPT !.stencilMask = Cur[2]]
  /\ glErr' \in Raise(glErr)
  /\ Advance
  /\ UNCHANGED << winVars, resVars, sbuf, uniforms, frameVars, clockVars >>
  /\ UNCHANGED texVars
  /\ UNCHANGED vtxVars

\* gl.DepthMask(flag)
\* depth writes switched off and never on again: gl.DepthMask(true) left out
DepthMaskNotRestored ==
  /\ Running("depthMask")
  /\ gl' = [gl EXCEPT !.depthMask = gl.depthMask /\ Cur[2]]
  /\ glErr' \in Raise(glErr)
  /\ Advance
  /\ UNCHANGED << winVars, resVars, sbuf, uniforms, frameVars, clockVars >>
  /\ UNCHANGED texVars
  /\ UNCHANGED vtxVars

DepthMask ==
  /\ Running("depthMask")
  /\ gl' = [gl EXCEPT !.depthMask = Cur[2]]
  /\ glErr' \in Raise(glErr)
  /\ Advance
  /\ UNCHANGED << winVars, resVars, sbuf, uniforms, frameVars, clockVars >>
  /\ UNCHANGED texVars
  /\ UNCHANGED vtxVars

\* window.SwapBuffers(): the frame is shown
SwapBuffers ==
  /\ Running("swapBuffers")
  /\ frames' = Min(frames + 1, MaxFrames)
  /\ Advance
  /\ UNCHANGED << winVars, resVars, glVars, lastLog, calls, polled, clockVars >>
  /\ UNCHANGED texVars
  /\ UNCHANGED vtxVars

\* ------------------------------------------------------------- the end of main
\* main reaches its closing brace
Return ==
  /\ Running("return")
  /\ status' = "returning"
  /\ UNCHANGED << prog, pc, defers, panicMsg, stderr, failure >>
  /\ UNCHANGED << winVars, resVars, glVars, frameVars, clockVars >>
  /\ UNCHANGED texVars
  /\ UNCHANGED vtxVars

\* the deferred call pushed last runs: a return and a panic both unwind the stack
RunDeferred ==
  /\ status \in {"returning", "panicking"}
  /\ defers # << >>
  /\ LET t == defers[Len(defers)]
     IN  /\ released' = Append(released, t)
         /\ glfwUp' = IF t = "glfw" THEN FALSE ELSE glfwUp
         /\ contextCurrent' = IF t \in {"glfw", "window"} THEN FALSE ELSE contextCurrent
  /\ defers' = SubSeq(defers, 1, Len(defers) - 1)
  /\ UNCHANGED << prog, pc, status, panicMsg, stderr, failure >>
  /\ UNCHANGED << keyCallback, shouldClose, polling, delivered, lastEvent >>
  /\ UNCHANGED << created, compiled, uploaded, glVars, frameVars, clockVars >>
  /\ UNCHANGED texVars
  /\ UNCHANGED vtxVars

\* main has returned and the process exits with status 0
Exit ==
  /\ status = "returning"
  /\ defers = << >>
  /\ status' = "exited"
  /\ UNCHANGED << prog, pc, defers, panicMsg, stderr, failure >>
  /\ UNCHANGED << winVars, resVars, glVars, frameVars, clockVars >>
  /\ UNCHANGED texVars
  /\ UNCHANGED vtxVars

\* the panic reached the top of the goroutine: the runtime prints it and aborts
Crash ==
  /\ status = "panicking"
  /\ defers = << >>
  /\ status' = "crashed"
  /\ stderr' = "panic: " \o panicMsg
  /\ UNCHANGED << prog, pc, defers, panicMsg, failure >>
  /\ UNCHANGED << winVars, resVars, glVars, frameVars, clockVars >>
  /\ UNCHANGED vtxVars

  /\ UNCHANGED texVars
Next ==
  \/ GlfwInit \/ Defer \/ WindowHints \/ GetPrimaryMonitor \/ CreateWindow
  \/ MakeContextCurrent \/ SetKeyCallback \/ GlInit \/ GenBuffers
  \/ Enable \/ Disable \/ GenVertexArray \/ BindVertexArray \/ GenBuffer
  \/ BufferData \/ CheckError \/ OpenFile \/ CreateTexture \/ CopyRow \/ TexImage2D
  \/ CompileShader
  \/ LinkProgram \/ AttribPointer \/ OverrideColor \/ TextureUniforms
  \/ UniformMatrix \/ StartTime
  \/ LoopHead \/ PollEvents \/ HandleKey \/ WindowClose \/ PollReturn
  \/ Clear \/ Rotate \/ ReflectModel \/ DrawArrays \/ DrawElements
  \/ StencilFunc \/ StencilOp \/ StencilMask \/ DepthMask \/ SwapBuffers
  \/ Return \/ RunDeferred \/ Exit \/ Crash

Spec == Init /\ [][Next]_vars

\* ------------------------------------------------------------- properties
AtHead == status = "running" /\ pc = HeadPc(prog)
InBody == status = "running" /\ pc > HeadPc(prog) /\ pc <= LastBodyPc(prog)
LoopOver == status # "running" \/ pc = ReturnPc(prog)

\* a handleKey call is the step that delivers a key event
KeyDelivered == delivered' = delivered + 1 /\ lastEvent'.type = "key"
EscapePressed == lastEvent'.key = "Escape" /\ lastEvent'.action = "Press"

\* C1: In every program handleKey sets the should-close flag to true exactly when
\* the event is a Press of Escape; for every other key or action it leaves the
\* flag as it was; it never sets the flag back to false.
C1_HandleKey ==
  [][KeyDelivered =>
       /\ EscapePressed => shouldClose'
       /\ ~EscapePressed => shouldClose' = shouldClose
       /\ shouldClose => shouldClose']_vars

\* handleKey has run for a Press of Escape, after another event of the same poll
C1_Witness ==
  /\ polling /\ delivered = 2
  /\ lastEvent = [type |-> "key", key |-> "Escape", action |-> "Press"]
  /\ shouldClose

\* C2: The loop tests the should-close flag once per iteration, at its head: an
\* iteration starts only from the head with the flag false; inside an iteration
\* control goes from each statement to the next whatever the flag is; at the head
\* with the flag true the loop ends, and after that no frame is drawn or swapped
\* and main returns without a panic; with the flag false the head enters the body.
C2_LoopTest ==
  [][/\ AtHead =>
          IF shouldClose
          THEN pc' = ReturnPc(prog) /\ frames' = frames /\ calls' = calls
          ELSE pc' = pc + 1 /\ status' = "running"
     /\ InBody => status' = "running" /\ pc' \in {pc, NextPc(prog, pc)}
     /\ InBody' /\ ~InBody => AtHead /\ ~shouldClose
     /\ LoopOver => LoopOver' /\ frames' = frames /\ calls' = calls
     /\ pc = ReturnPc(prog) =>
          /\ status' \in {"running", "returning", "exited"}
          /\ panicMsg' = "" /\ stderr' = ""
          /\ status # "exited" => ENABLED Next]_vars

\* the flag was set during an iteration of the cube program, the iteration ran to
\* its end, the loop ended at the next test and main returned
C2_Witness ==
  /\ prog = "cube" /\ status = "exited" /\ shouldClose
  /\ frames = 1 /\ Len(calls) > 0

\* the setup statements before the loop that can fail
Fallible == {"glfwInit", "getPrimaryMonitor", "createWindow", "open",
             "createTexture", "compileShader", "linkProgram"}

exceptLog ==
  << prog, status, defers, panicMsg, stderr, failure, winVars, resVars, gl, sbuf,
     uniforms, calls, frames, clockVars >>

CheckErrorInLoop == Running("checkError") /\ InBody

\* what C4 says of a checkError call in the loop: it reads and clears the error,
\* prints it if there is one, and changes nothing else
ErrorOnlyLogged ==
  [][CheckErrorInLoop =>
       /\ lastLog' = CheckErrorLog("main loop", glErr)
       /\ glErr' = NoError
       /\ pc' = NextPc(prog, pc)
       /\ UNCHANGED exceptLog]_vars

\* C4 as stated, for all four programs: every iteration polls the GL error code
\* and an error is only logged.
C4_AllFourPoll ==
  /\ [](AtHead /\ frames > 0 => polled)
  /\ ErrorOnlyLogged

\* C4 as amended: in the three drawing programs (cube, triangle, quad) every
\* iteration polls the GL error code, and an error is only logged: the flag, the
\* loop and the process go on as without it. The context program's loop polls
\* no error code.
C4_ErrorOnlyLogged ==
  /\ [](AtHead /\ frames > 0 => polled = (prog # "context"))
  /\ ErrorOnlyLogged

\* the cube's checkError printed an error in the loop and the frame is swapped
C4_Witness ==
  /\ prog = "cube" /\ InBody /\ Cur[1] = "swapBuffers"
  /\ lastLog = "main loop error: INVALID_OPERATION"
  /\ ~shouldClose /\ frames = 1

Range(f) == {f[i] : i \in DOMAIN f}

\* C5: In every program every handle created at startup has been released by the
\* time main returns.
C5_AllReleased ==
  status = "exited" => created \subseteq Range(released)

\* the arguments of the setup statements of program p with an operation in ops
SetupArgs(p, ops) ==
  {Setup(p)[i][2] : i \in {j \in DOMAIN Setup(p) : Setup(p)[j][1] \in ops}}

\* no GL call is issued unless the window's context is current
GLNeedsContext ==
  /\ status = "running" /\ Cur[1] \in GLOps /\ ~polling => contextCurrent
  /\ status \in {"returning", "panicking"} /\ defers # << >>
       /\ defers[Len(defers)] \notin {"glfw", "window"} => contextCurrent

\* library init, then the window, then the uploads, then the loop
SetupBeforeLoop ==
  /\ "window" \in created /\ status = "running" => glfwUp
  /\ created \ {"window"} # {} /\ status = "running" => contextCurrent
  /\ status = "running" /\ pc >= HeadPc(prog) =>
       /\ glfwUp /\ contextCurrent /\ "window" \in created
       /\ SetupArgs(prog, {"bufferData", "createTexture"}) \subseteq uploaded
       /\ SetupArgs(prog, {"compileShader", "linkProgram"}) \subseteq compiled
       /\ SetupArgs(prog, UploadOps) \subseteq created

\* GL objects are deleted before the window is destroyed, the library terminated last
TeardownOrder ==
  \A i, j \in DOMAIN released :
    i < j => /\ released[i] # "glfw"
             /\ released[i] = "window" => released[j] = "glfw"

\* C6 as stated: the phases in order, and no release before the loop has exited.
C6_Original ==
  /\ GLNeedsContext
  /\ SetupBeforeLoop
  /\ released # << >> => pc = ReturnPc(prog)
  /\ TeardownOrder

\* C6 as amended: the phases in order; a release starts only after the loop has
\* exited or, when a setup statement failed, during the panic, when the loop will
\* never run.
C6_Phases ==
  /\ GLNeedsContext
  /\ SetupBeforeLoop
  /\ released # << >> =>
       \/ pc = ReturnPc(prog) /\ status \in {"returning", "exited"}
       \/ pc < HeadPc(prog) /\ status \in {"panicking", "crashed"} /\ frames = 0
  /\ TeardownOrder

\* the quad program has returned after its loop and released in reverse order
C6_Witness ==
  /\ prog = "quad" /\ status = "exited" /\ frames > 0
  /\ released = <<"tex1", "tex0", "ebo", "vbo", "vao", "window", "glfw">>

ReadyToDraw ==
  /\ "window" \in created
  /\ {"vertexShader", "fragmentShader"} \subseteq compiled
  /\ "vbo" \in uploaded

\* C7 as stated, for all four programs.
C7_AllFour ==
  status = "running" /\ pc >= HeadPc(prog) => ReadyToDraw

\* C7 as amended: each of the three drawing programs has, before its first
\* iteration, opened a window, compiled a vertex and a fragment shader and
\* uploaded vertex data; the context program has opened a window and generated a
\* buffer name, and has compiled no shader and uploaded no data.
C7_ReadyBeforeLoop ==
  status = "running" /\ pc >= HeadPc(prog) =>
    IF prog = "context"
    THEN "window" \in created /\ "buffers" \in created
         /\ compiled = {} /\ uploaded = {}
    ELSE ReadyToDraw

\* the triangle program stands at the head of its first iteration
C7_Witness ==
  prog = "triangle" /\ AtHead /\ frames = 0 /\ ~shouldClose /\ ReadyToDraw

IsDraw(i) == calls[i].op = "draw"
IsStencilClear(i) == calls[i].op = "clear" /\ "STENCIL" \in calls[i].arg
IsModelUpload(i) == calls[i].op = "uniform" /\ calls[i].arg = "model"
FrameDone == InBody /\ Cur[1] = "swapBuffers"

\* C8: In every frame of the cube program the unreflected cube is drawn with the
\* stencil test disabled; then, with the test enabled, the stencil buffer is
\* cleared, the floor is drawn with ALWAYS, ref 1, REPLACE, write mask 0xFF and
\* depth writes off, and the reflected cube is drawn with EQUAL, ref 1, mask 0xFF,
\* write mask 0x00 and depth writes on, so that it writes only pixels the floor
\* draw of this frame set to 1; the test is disabled again at the end.
C8_Stencil ==
  prog = "cube" /\ FrameDone =>
    /\ ~gl.stencilTest
    /\ \E t, c, f, r \in DOMAIN calls :
         /\ t < c /\ c < f /\ f < r
         /\ {i \in DOMAIN calls : IsDraw(i)} = {t, f, r}
         /\ calls[t].arg = <<0, 36>> /\ ~calls[t].gl.stencilTest
         /\ IsStencilClear(c)
         /\ calls[c].gl.stencilMask = FullMask
         /\ \A x \in Pixels : calls[c].stencil[x] = 0
         /\ calls[f].arg = <<36, 6>>
         /\ calls[f].gl.stencilTest
         /\ calls[f].gl.stencilFunc[1] = "ALWAYS" /\ calls[f].gl.stencilFunc[2] = 1
         /\ calls[f].gl.stencilOp[3] = "REPLACE"
         /\ calls[f].gl.stencilMask = FullMask
         /\ ~calls[f].gl.depthMask
         /\ calls[r].arg = <<0, 36>>
         /\ calls[r].gl.stencilTest
         /\ calls[r].gl.stencilFunc = <<"EQUAL", 1, FullMask>>
         /\ calls[r].gl.stencilMask = NoMask
         /\ calls[r].gl.depthMask
         /\ calls[r].written \subseteq {x \in Pixels : calls[f].stencil[x] = 1}
         /\ calls[r].stencil = calls[f].stencil

\* a later frame of the cube in which the reflected cube wrote a pixel
C8_Witness ==
  /\ prog = "cube" /\ FrameDone /\ frames > 0
  /\ \E r \in DOMAIN calls :
       /\ IsDraw(r) /\ calls[r].gl.stencilFunc[1] = "EQUAL"
       /\ calls[r].written # {}

\* the matrix uniforms uploaded since the loop head
FrameUploads == {calls[i].arg : i \in {j \in DOMAIN calls : calls[j].op = "uniform"}}

\* C9 as stated: model, view and projection are all uploaded in every frame.
C9_AllThree ==
  prog \in {"cube", "quad"} /\ FrameDone =>
    {"model", "view", "proj"} \subseteq FrameUploads

\* C9 as amended: in the cube and the quad program only the model matrix is
\* recomputed and uploaded in every frame; the view and the projection matrix are
\* computed and uploaded once, before the loop.
C9_ModelOnly ==
  /\ prog \in {"cube", "quad"} /\ FrameDone =>
       /\ FrameUploads = {"model"}
       /\ uniforms.view = "lookAt" /\ uniforms.proj = "perspective"
  /\ prog \in {"cube", "quad"} /\ AtHead /\ frames = 0 =>
       /\ Len(calls) = 2
       /\ calls[1].arg = "view" /\ calls[2].arg = "proj"

\* the quad program at the end of a later frame
C9_Witness ==
  /\ prog = "quad" /\ FrameDone /\ frames > 0
  /\ FrameUploads = {"model"}

\* C10: In the cube and the quad program the model uniform is set in every frame
\* to the rotation about Z by pi times the time elapsed since startTime, which is
\* taken just before the loop; the upload precedes every draw of the frame; the
\* angle is never smaller than that of the frame before.
C10_Rotation ==
  prog \in {"cube", "quad"} =>
    /\ Code(prog)[HeadPc(prog) - 1][1] = "startTime"
    /\ InBody =>
         LET ups == {i \in DOMAIN calls : IsModelUpload(i)}
             rot == RotateZ(Float32(now - startTime))
         IN  /\ FrameDone => ups # {}
             /\ \A d \in DOMAIN calls : IsDraw(d) => \E u \in ups : u < d
             /\ \A u \in ups :
                  (\A v \in ups : u <= v) =>
                     /\ calls[u].value = rot
                     /\ diffTime = now - startTime /\ diffTime >= 0
                     /\ prevAngle <= rot.angle
                     /\ \A d \in DOMAIN calls :
                          IsDraw(d) /\ ~calls[d].gl.stencilTest =>
                            u < d /\ calls[d].value = rot

\* a later frame of the cube whose angle is larger than that of the frame before
C10_Witness ==
  /\ prog = "cube" /\ FrameDone
  /\ prevAngle >= 0 /\ prevAngle < uniforms.model.angle
  /\ uniforms.model.angle = now - startTime

\* ------------------------------------------------------------- C11
\* the two errors createTexture returns
TextureErrors == {"png: invalid format", "texture must be an NRGBA image"}
TexturePrograms == {"cube", "quad"}
TextureNames == {"tex0", "tex1"}

\* C11: when its input does not decode as PNG, or decodes to an image that is not
\* NRGBA, createTexture returns the zero texture and an error, having generated no
\* GL texture and prepared or uploaded no pixel data; main panics with that error, for
\* sample.png as for sample2.png, so the render loop runs only after both textures
\* were created and uploaded.
C11_TextureFailure ==
  /\ [][(Running("createTexture") /\ failure' # failure) =>
          /\ failure' \in TextureErrors
          /\ textures'[Cur[2]] = ZeroTexture
          /\ created' = created
          /\ uploaded' = uploaded
          /\ rgbaImg' = NoImage /\ data' = << >>
          /\ status' = "panicking"
          /\ panicMsg' = failure'
          /\ pc' = pc]_vars
  /\ [](failure \in TextureErrors =>
          /\ status \in {"panicking", "crashed"}
          /\ Cur[1] = "createTexture"
          /\ status = "crashed" => stderr = "panic: " \o failure)
  /\ []((prog \in TexturePrograms /\ (AtHead \/ InBody)) =>
          \A t \in TextureNames :
            t \in created /\ t \in uploaded /\ textures[t] # ZeroTexture)

\* sample.png was made a texture, sample2.png was not an NRGBA image, and the
\* program has crashed with createTexture's error
C11_Witness ==
  /\ status = "crashed"
  /\ failure = "texture must be an NRGBA image"
  /\ stderr = "panic: texture must be an NRGBA image"
  /\ Cur = <<"createTexture", "tex1">>
  /\ "tex0" \in uploaded
  /\ textures["tex0"] # ZeroTexture
  /\ textures["tex1"] = ZeroTexture
  /\ "tex1" \notin created

\* ------------------------------------------------------------- C12
\* the copy loop has a turn left / is over, with gl.TexImage2D the next call
CopyPending == InCreateTexture /\ src < Len(rgbaImg.Pix)
UploadReady == InCreateTexture /\ src >= Len(rgbaImg.Pix)

\* an image of at least one pixel whose rows lie back to back
TightImage ==
  /\ rgbaImg.W >= 1 /\ rgbaImg.H >= 1
  /\ rgbaImg.Stride = BytesPerPixel * rgbaImg.W
  /\ Len(rgbaImg.Pix) = BytesPerPixel * rgbaImg.W * rgbaImg.H

\* row r of data is row H-1-r of the image, byte for byte
Flipped ==
  \A r \in 0..(rgbaImg.H - 1), k \in 1..rgbaImg.Stride :
    data[r * rgbaImg.Stride + k] = rgbaImg.Pix[(rgbaImg.H - 1 - r) * rgbaImg.Stride + k]

\* C12: for an NRGBA image of W >= 1 by H >= 1 pixels with stride 4*W and 4*W*H
\* bytes, the array createTexture hands to gl.TexImage2D has 4*W*H bytes, its row r
\* is the image's row H-1-r byte for byte, and every slice expression of the copy
\* loop is within the bounds of data and of rgbaImg.Pix.
C12_Flip ==
  /\ (InCreateTexture /\ TightImage) =>
       /\ Len(data) = BytesPerPixel * rgbaImg.W * rgbaImg.H
       /\ UploadReady => Flipped
       /\ CopyPending =>
            /\ SliceOk(data, dest, dest + lineLen)
            /\ SliceOk(rgbaImg.Pix, src, src + rgbaImg.Stride)
  /\ panicMsg # "runtime error: slice bounds out of range"

\* an image of two rows or more, every byte tagged with its offset, has been copied:
\* its last row is the first of data, and the upload is the next call
C12_Witness ==
  /\ UploadReady
  /\ TightImage
  /\ rgbaImg.W >= 2 /\ rgbaImg.H >= 2
  /\ rgbaImg.Pix[1] # rgbaImg.Pix[Len(rgbaImg.Pix)]
  /\ data[1] = rgbaImg.Pix[(rgbaImg.H - 1) * rgbaImg.Stride + 1]
  /\ data[1] # rgbaImg.Pix[1]
  /\ dest = 0 - lineLen

\* ------------------------------------------------------------- C13
\* a draw call is the next statement
AtDraw == status = "running" /\ ~polling /\ Cur[1] \in {"drawArrays", "drawElements"}

\* the attributes a pointer was set for
Enabled == {a \in AttribNames : attribs[a] # NoAttrib}

\* the vertices the draw call fetches: first .. first+count-1 for DrawArrays, the
\* first count indices of the element buffer for DrawElements
Fetched ==
  IF Cur[1] = "drawArrays" THEN Cur[2][1]..(Cur[2][1] + Cur[2][2] - 1)
  ELSE {elementBuffer[i] : i \in 1..Min(Cur[2], Len(elementBuffer))}

\* one past the last byte of the array buffer that attribute a of vertex v occupies
AttribEnd(a, v) ==
  v * attribs[a].stride + attribs[a].offset + attribs[a].size * SizeofFloat

\* the stride in floats, the number of vertices and the DrawArrays ranges as claimed
StrideFloats(p) == CASE p = "cube" -> 8 [] p = "triangle" -> 5 [] p = "quad" -> 7
VertexCount(p) == CASE p = "cube" -> 42 [] p = "triangle" -> 6 [] p = "quad" -> 4
DrawRanges(p) ==
  CASE p = "cube" -> {<<0, 36>>, <<36, 6>>} [] p = "triangle" -> {<<0, 6>>} [] p = "quad" -> {}

\* C13: in the cube, triangle and quad programs every draw call fetches uploaded
\* vertices only: the array buffer holds stride (8, 5, 7 floats) times the number of
\* vertices (42, 6, 4), every attribute's offset plus size is within the stride, every
\* DrawArrays range ends at or before the last vertex (cube 0..36 and 36..42, triangle
\* 0..6), and DrawElements in the quad program takes as many indices as were
\* uploaded (6), each of them below 4.
C13_DrawsInBounds ==
  AtDraw =>
    /\ arrayBuffer = SizeofFloat * StrideFloats(prog) * VertexCount(prog)
    /\ Enabled # {}
    /\ \A a \in Enabled :
         /\ attribs[a].stride = SizeofFloat * StrideFloats(prog)
         /\ attribs[a].offset + attribs[a].size * SizeofFloat <= attribs[a].stride
    /\ Cur[1] = "drawArrays" =>
         /\ Cur[2] \in DrawRanges(prog)
         /\ Cur[2][1] + Cur[2][2] <= VertexCount(prog)
    /\ Cur[1] = "drawElements" =>
         /\ prog = "quad"
         /\ Cur[2] = Len(elementBuffer)
         /\ Cur[2] = 6
         /\ \A i \in 1..Len(elementBuffer) : elementBuffer[i] < VertexCount(prog)
    /\ \A v \in Fetched : \A a \in Enabled :
         v >= 0 /\ AttribEnd(a, v) <= arrayBuffer

\* the cube program is about to draw the floor, vertices 36..41, in a later frame:
\* the texcoord of vertex 41 ends with the last byte of the array buffer
C13_Witness ==
  /\ AtDraw
  /\ prog = "cube"
  /\ Cur[1] = "drawArrays"
  /\ Cur[2] = <<36, 6>>
  /\ frames >= 1
  /\ Enabled = AttribNames
  /\ AttribEnd("texcoord", 41) = arrayBuffer

\* ------------------------------------------------------------- C14
\* draw calls made since the loop head
DrawsDone == Cardinality({i \in 1..Len(calls) : calls[i].op = "draw"})

\* the GL state a draw call depends on
DrawState(test, func, mask, depth, color) ==
  /\ gl.depthTest
  /\ gl.stencilTest = test
  /\ gl.stencilTest => (gl.stencilFunc = func /\ gl.stencilMask = mask)
  /\ gl.depthMask = depth
  /\ uniforms.overrideColor = color

\* C14: in the cube program no frame depends on the GL state the frame before left:
\* at the head of every iteration, after any number of frames, the stencil test is
\* off, depth writes are on and overrideColor is (1,1,1); gl.Clear finds the depth
\* mask true when it clears the depth buffer and the stencil mask 0xFF when it clears
\* the stencil buffer, so the stencil buffer is all zero after its clear in every
\* frame; and each of the three draws runs in the same state in every frame.
C14_FrameIndependent ==
  /\ []((prog = "cube" /\ AtHead) =>
          /\ ~gl.stencilTest
          /\ gl.depthMask
          /\ uniforms.overrideColor = "white")
  /\ []((prog = "cube" /\ Running("clear")) =>
          /\ "DEPTH" \in Cur[2] => gl.depthMask
          /\ "STENCIL" \in Cur[2] => gl.stencilMask = FullMask)
  /\ [][(prog = "cube" /\ Running("clear") /\ "STENCIL" \in Cur[2]) =>
          sbuf' = [x \in Pixels |-> 0]]_vars
  /\ []((prog = "cube" /\ Running("drawArrays")) =>
          CASE DrawsDone = 0 ->
                 DrawState(FALSE, << >>, FullMask, TRUE, "white")
            [] DrawsDone = 1 ->
                 DrawState(TRUE, <<"ALWAYS", 1, FullMask>>, FullMask, FALSE, "white")
            [] OTHER ->
                 DrawState(TRUE, <<"EQUAL", 1, FullMask>>, NoMask, TRUE, "dark"))

\* the head of the cube's loop after two frames: the frame before left the stencil
\* mask at 0x00, the stencil function at EQUAL and a marked stencil buffer
C14_Witness ==
  /\ prog = "cube"
  /\ AtHead
  /\ frames >= 2
  /\ gl.stencilMask = NoMask
  /\ gl.stencilFunc[1] = "EQUAL"
  /\ \E x \in Pixels : sbuf[x] = 1
  /\ ~gl.stencilTest /\ gl.depthMask /\ uniforms.overrideColor = "white"

====
